---- MODULE Spec2Model ----
(***************************************************************************)
(* Model of src/holo/model.py: BaseModel, NormalModel, NoisyNormalModel    *)
(* and HolopyAlphaModel, the pyro.sample / pyro.condition primitives they  *)
(* use, and the tensor conversions (log, exp, squeeze) they apply.         *)
(*                                                                         *)
(* Numbers are fixed point with three decimals: the integer 1500 stands    *)
(* for 1.5.  A tensor is a record [shape, vals] with vals in row-major     *)
(* order; a scalar has shape << >> and one value.                          *)
(***************************************************************************)
EXTENDS Integers, Sequences, FiniteSets, TLC

VARIABLES
    cls,          \* class of the model object
    params,       \* self.params: the prior spec, a dict in insertion order
    param_names,  \* self.param_names
    validation,   \* whether the distribution library validates arguments
    raw,          \* the raw measurement the caller holds
    record,       \* the caller's last convert_holopy result
    pc,           \* position of the running invocation
    op,           \* entry point of the running / last invocation
    x,            \* local x of model and likelihood
    y,            \* local y of model
    cond,         \* data of the active pyro.condition handler
    i,            \* position of the loop over self.params.items()
    sampled,      \* local dict params of likelihood
    expected,     \* local expected of likelihood
    trace,        \* sample sites of the running / last invocation, in order
    fwdLog,       \* forward calls of the running / last invocation, in order
    outcome,      \* how the last invocation ended
    result,       \* value the last invocation returned
    calls         \* number of invocations started

vars == <<cls, params, param_names, validation, raw, record, pc, op, x, y, cond,
          i, sampled, expected, trace, fwdLog, outcome, result, calls>>

-----------------------------------------------------------------------------
(* Bounds *)

MaxCalls == 2

MaxKeys == 2

MaxDim == 2

-----------------------------------------------------------------------------
(* Fixed-point arithmetic *)

Unit == 10 * 10 * 10

EulerNum == 2 * Unit + 718

Mul(a, b) == (a * b) \div Unit

RECURSIVE TaylorSum(_, _, _)
TaylorSum(r, n, term) ==
    IF term = 0 THEN 0
    ELSE term + TaylorSum(r, n + 1, (term * r) \div (n * Unit))

RECURSIVE ScaleE(_, _)
ScaleE(v, q) ==
    IF q = 0 THEN v
    ELSE IF q > 0 THEN ScaleE((v * EulerNum) \div Unit, q - 1)
    ELSE ScaleE((v * Unit) \div EulerNum, q + 1)

\* torch.exp on one element: e^(s/Unit) * Unit
Exp(s) == ScaleE(TaylorSum(s % Unit, 1, Unit), s \div Unit)

LnLo == 0 - 8 * Unit

LnHi == 6 * Unit

RECURSIVE LnSearch(_, _, _)
LnSearch(m, lo, hi) ==
    IF hi - lo <= 1 THEN lo
    ELSE LET mid == (lo + hi) \div 2
         IN  IF Exp(mid) <= m THEN LnSearch(m, mid, hi)
             ELSE LnSearch(m, lo, mid)

\* torch.log on one positive element: the largest l with Exp(l) <= m
Ln(m) == LnSearch(m, LnLo, LnHi)

-----------------------------------------------------------------------------
(* Tensors *)

RECURSIVE NumEl(_)
NumEl(shape) ==
    IF shape = << >> THEN 1 ELSE Head(shape) * NumEl(Tail(shape))

Scalar(v) == [shape |-> << >>, vals |-> <<v>>]

Fill(shape, v) == [shape |-> shape, vals |-> [j \in 1..NumEl(shape) |-> v]]

NoneT == [shape |-> <<0>>, vals |-> << >>]

AllPositive(t) == \A j \in 1..Len(t.vals) : t.vals[j] > 0

Squeeze(shape) == SelectSeq(shape, LAMBDA d : d # 1)

-----------------------------------------------------------------------------
(* Python dicts, kept in insertion order: sequences of [k, v] *)

Keys(d) == [j \in 1..Len(d) |-> d[j].k]

HasKey(d, key) == \E j \in 1..Len(d) : d[j].k = key

Get(d, key) == d[CHOOSE j \in 1..Len(d) : d[j].k = key].v

Put(d, key, val) ==
    IF HasKey(d, key)
    THEN [j \in 1..Len(d) |-> IF d[j].k = key THEN [k |-> key, v |-> val] ELSE d[j]]
    ELSE Append(d, [k |-> key, v |-> val])

-----------------------------------------------------------------------------
(* Classes *)

Classes == {"BaseModel", "NormalModel", "NormalModelSubclass",
            "NoisyNormalModel", "NoisyNormalModelSubclass", "HolopyAlphaModel"}

\* classes whose likelihood is NormalModel.likelihood
NormalClasses == {"NormalModel", "NormalModelSubclass"}

\* classes whose likelihood is NoisyNormalModel.likelihood
NoisyClasses == {"NoisyNormalModel", "NoisyNormalModelSubclass",
                 "HolopyAlphaModel"}

\* classes that supply forward
ForwardClasses == {"NormalModelSubclass", "NoisyNormalModelSubclass",
                   "HolopyAlphaModel"}

-----------------------------------------------------------------------------
(* Distributions and sample sites *)

Normal(loc, scale) == [loc |-> loc, scale |-> scale]

\* the scale of a Normal must be positive
ValidArgs(d) == AllPositive(d.scale)

\* dist.Normal(*v)
NormalPrior(v) == Normal(Scalar(v[1]), Scalar(v[2]))

\* mutant: 'noise_sd' sampled from its prior as given, without the logarithms
NoisyPriorNoLog(k, v) == NormalPrior(v)

\* the distribution NoisyNormalModel.likelihood builds for entry (k, v)
NoisyPrior(k, v) ==
    IF k = "noise_sd"
    THEN LET ln_sigma == Scalar(Ln(v[1]))
             ln_sigma_var == Scalar(Ln(v[2]))
         IN  Normal(ln_sigma, ln_sigma_var)
    ELSE NormalPrior(v)

ParamDist(c, k, v) == IF c \in NoisyClasses THEN NoisyPrior(k, v) ELSE NormalPrior(v)

noise_sd == 100

\* mutant: noise_sd used unsquared
NormalLikelihoodUnsquared(exp_out) == Normal(exp_out, Scalar(noise_sd))

\* Normal(expected, noise_sd**2)
NormalLikelihood(exp_out) == Normal(exp_out, Scalar(Mul(noise_sd, noise_sd)))

ExpSquared(s) == Mul(Exp(s), Exp(s))

\* mutant: the exponential used unsquared
NoiseUnsquared(p) ==
    LET s == Get(p, "noise_sd")
    IN  [shape |-> s.shape, vals |-> [j \in 1..Len(s.vals) |-> Exp(s.vals[j])]]

\* torch.exp(params['noise_sd']) ** 2
Noise(p) ==
    LET s == Get(p, "noise_sd")
    IN  [shape |-> s.shape, vals |-> [j \in 1..Len(s.vals) |-> ExpSquared(s.vals[j])]]

\* Normal(expected, noise)
NoisyLikelihood(exp_out, p) == Normal(exp_out, Noise(p))

\* pyro.condition(self.likelihood, data={'likelihood': y})
Condition(obs) == <<[k |-> "likelihood", v |-> obs]>>

\* mutant: the handler's data is ignored
PyroSampleUnconditioned(handler, name, d, fresh) ==
    [name |-> name, loc |-> d.loc, scale |-> d.scale,
     value |-> fresh, is_observed |-> FALSE]

\* pyro.sample(name, d): the conditioned value if the active handler has
\* one for this name, the fresh draw otherwise
PyroSample(handler, name, d, fresh) ==
    IF HasKey(handler, name)
    THEN [name |-> name, loc |-> d.loc, scale |-> d.scale,
          value |-> Get(handler, name), is_observed |-> TRUE]
    ELSE [name |-> name, loc |-> d.loc, scale |-> d.scale,
          value |-> fresh, is_observed |-> FALSE]

\* a draw from d has the shape of d.loc
Draw(d, v) == Fill(d.loc.shape, v)

-----------------------------------------------------------------------------
(* forward and convert_holopy *)

ForwardKeys == <<"x", "y", "z", "n", "r", "alpha">>

\* the first key HolopyAlphaModel.forward reads that p lacks, "" if none
MissingKey(p) ==
    LET miss == {j \in 1..Len(ForwardKeys) : ~HasKey(p, ForwardKeys[j])}
    IN  IF miss = {} THEN ""
        ELSE ForwardKeys[CHOOSE j \in miss : \A m \in miss : j <= m]

NoOutcome == [kind |-> "none", exc |-> "", key |-> ""]

Returned == [kind |-> "return", exc |-> "", key |-> ""]

Raised(exc, key) == [kind |-> "raise", exc |-> exc, key |-> key]

\* mutant: the base forward returns instead of raising
ForwardOutcomeNoRaise(c, p) ==
    IF c = "HolopyAlphaModel" /\ MissingKey(p) # ""
    THEN Raised("KeyError", MissingKey(p))
    ELSE Returned

\* how forward(x, p) of class c ends
ForwardOutcome(c, p) ==
    IF c \notin ForwardClasses THEN Raised("NotImplementedError", "")
    ELSE IF c = "HolopyAlphaModel" /\ MissingKey(p) # ""
         THEN Raised("KeyError", MissingKey(p))
    ELSE Returned

\* calc_holo(x, sph, scaling=alpha).values.squeeze(): one value per point
\* of x, v standing for the simulator's output
ForwardValue(xx, v) == Fill(Squeeze(xx.shape), v)

\* mutant: the values flattened instead of squeezed
ConvertHolopyFlat(data) ==
    [x |-> data, y |-> [shape |-> <<NumEl(data.shape)>>, vals |-> data.vals]]

\* HolopyAlphaModel.convert_holopy
ConvertHolopy(data) ==
    [x |-> data, y |-> [shape |-> Squeeze(data.shape), vals |-> data.vals]]

-----------------------------------------------------------------------------
(* Inputs *)

PriorLocs == {50}

PriorScales == {100, 2000}

SmallKeys == {"x", "noise_sd", "likelihood"}

Entries == {[k |-> key, v |-> <<loc, scale>>] :
                key \in SmallKeys, loc \in PriorLocs, scale \in PriorScales}

\* prior specs of at most MaxKeys entries; a dict has no key twice
SmallSpecs ==
    UNION {{d \in [1..n -> Entries] :
                \A a, b \in 1..n : a # b => d[a].k # d[b].k} : n \in 0..MaxKeys}

SphereSpec ==
    <<[k |-> "x", v |-> <<0, 1000>>], [k |-> "y", v |-> <<0, 1000>>],
      [k |-> "z", v |-> <<10000, 1000>>], [k |-> "n", v |-> <<1500, 50>>],
      [k |-> "r", v |-> <<500, 50>>], [k |-> "alpha", v |-> <<1000, 100>>]>>

EndToEndSpec == Append(SphereSpec, [k |-> "noise_sd", v |-> <<50, 100>>])


Ramp(shape) == [shape |-> shape, vals |-> [j \in 1..NumEl(shape) |-> j * Unit]]

Ones10x10 == Fill(<<10, 10>>, Unit)

Measurements == {Ramp(<<h, w>>) : h, w \in 1..MaxDim}

SampleVals == {0 - 3 * Unit, 500}

ForwardVals == {Unit}

ObservedVals == {2 * Unit}

NoRecord == [x |-> NoneT, y |-> NoneT]

\* the records a caller can pass: what convert_holopy gave it, or its own
DataRecords ==
    {[x |-> raw, y |-> Fill(raw.shape, v)] : v \in ObservedVals}
      \cup ({record} \ {NoRecord})

\* the dicts a caller passes to forward directly
DirectParams ==
    {<< >>, [j \in 1..Len(SphereSpec) |-> [k |-> SphereSpec[j].k, v |-> Scalar(500)]]}

-----------------------------------------------------------------------------
(* BaseModel.__init__                                                     *)
(*                                                                         *)
(* The model objects checked: every class on every small prior spec; the  *)
(* HolopyAlphaModel of the end-to-end scenario, with and without its       *)
(* 'noise_sd' entry, on the 10x10 measurement of ones; a HolopyAlphaModel  *)
(* on every small measurement.  Prior scales are positive, as a Normal     *)
(* requires.  validation is the distribution library's argument check: on, *)
(* a Normal with a scale <= 0 is rejected with ValueError; off, it is      *)
(* built and sampled as it is.                                             *)

Init ==
    /\ \/ /\ cls \in Classes
          /\ params \in SmallSpecs
          /\ raw = Ramp(<<1, MaxDim>>)
       \/ /\ cls = "HolopyAlphaModel"
          /\ params \in {SphereSpec, EndToEndSpec}
          /\ raw = Ones10x10
       \/ /\ cls = "HolopyAlphaModel"
          /\ params = << >>
          /\ raw \in Measurements
    /\ param_names = Keys(params)
    /\ validation \in BOOLEAN
    /\ record = NoRecord
    /\ pc = "idle"
    /\ op = ""
    /\ x = NoneT
    /\ y = NoneT
    /\ cond = << >>
    /\ i = 1
    /\ sampled = << >>
    /\ expected = NoneT
    /\ trace = << >>
    /\ fwdLog = << >>
    /\ outcome = NoOutcome
    /\ result = NoneT
    /\ calls = 0

\* mutant: the dict of sampled parameters is kept from the last invocation
EnterKeepingSampled(entry, xx, yy, handler) ==
    /\ pc = "idle"
    /\ calls < MaxCalls
    /\ calls' = calls + 1
    /\ op' = entry
    /\ x' = xx
    /\ y' = yy
    /\ cond' = handler
    /\ i' = 1
    /\ sampled' = sampled
    /\ expected' = NoneT
    /\ trace' = << >>
    /\ fwdLog' = << >>
    /\ outcome' = NoOutcome
    /\ result' = NoneT

\* a new invocation starts with fresh locals
Enter(entry, xx, yy, handler) ==
    /\ pc = "idle"
    /\ calls < MaxCalls
    /\ calls' = calls + 1
    /\ op' = entry
    /\ x' = xx
    /\ y' = yy
    /\ cond' = handler
    /\ i' = 1
    /\ sampled' = << >>
    /\ expected' = NoneT
    /\ trace' = << >>
    /\ fwdLog' = << >>
    /\ outcome' = NoOutcome
    /\ result' = NoneT

\* the invocation ends: the handler is popped, control is back at the caller
Leave(how, value) ==
    /\ pc' = "idle"
    /\ cond' = << >>
    /\ outcome' = how
    /\ result' = value

\* BaseModel.__call__ and BaseModel.model
Call(entry, data) ==
    /\ Enter(entry, data.x, data.y, Condition(data.y))
    /\ pc' = "likelihood"
    /\ UNCHANGED <<cls, params, param_names, validation, raw, record>>

\* likelihood(x) called directly, under no handler
CallLikelihood ==
    /\ Enter("likelihood", raw, NoneT, << >>)
    /\ pc' = "likelihood"
    /\ UNCHANGED <<cls, params, param_names, validation, raw, record>>

\* BaseModel.likelihood
LikelihoodBase ==
    /\ pc = "likelihood"
    /\ cls = "BaseModel"
    /\ Leave(Raised("NotImplementedError", ""), NoneT)
    /\ UNCHANGED <<cls, params, param_names, validation, raw, record, op, x, y, i,
                   sampled, expected, trace, fwdLog, calls>>

\* one iteration over self.params.items(): the distribution is built and
\* the site sampled
SampleParam ==
    /\ pc = "likelihood"
    /\ cls # "BaseModel"
    /\ i <= Len(params)
    /\ LET k == params[i].k
           d == ParamDist(cls, k, params[i].v)
       IN  /\ validation => ValidArgs(d)
           /\ \E v \in SampleVals :
                LET site == PyroSample(cond, k, d, Draw(d, v))
                IN  /\ trace' = Append(trace, site)
                    /\ sampled' = Put(sampled, k, site.value)
    /\ i' = i + 1
    /\ UNCHANGED <<cls, params, param_names, validation, raw, record, pc, op, x,
                   y, cond, expected, fwdLog, outcome, result, calls>>

\* one iteration over self.params.items(): the distribution's arguments
\* are rejected
RejectParam ==
    /\ pc = "likelihood"
    /\ cls # "BaseModel"
    /\ i <= Len(params)
    /\ validation
    /\ ~ValidArgs(ParamDist(cls, params[i].k, params[i].v))
    /\ Leave(Raised("ValueError", params[i].k), NoneT)
    /\ UNCHANGED <<cls, params, param_names, validation, raw, record, op, x, y, i,
                   sampled, expected, trace, fwdLog, calls>>

\* expected = self.forward(x, params), forward returning
ForwardReturns ==
    /\ pc = "likelihood"
    /\ cls # "BaseModel"
    /\ i > Len(params)
    /\ ForwardOutcome(cls, sampled) = Returned
    /\ fwdLog' = Append(fwdLog, [at |-> Len(trace), x |-> x, params |-> sampled])
    /\ \E v \in ForwardVals : expected' = ForwardValue(x, v)
    /\ pc' = "after_forward"
    /\ UNCHANGED <<cls, params, param_names, validation, raw, record, op, x, y, cond,
                   i, sampled, trace, outcome, result, calls>>

\* expected = self.forward(x, params), forward raising
ForwardRaises ==
    /\ pc = "likelihood"
    /\ cls # "BaseModel"
    /\ i > Len(params)
    /\ ForwardOutcome(cls, sampled) # Returned
    /\ fwdLog' = Append(fwdLog, [at |-> Len(trace), x |-> x, params |-> sampled])
    /\ Leave(ForwardOutcome(cls, sampled), NoneT)
    /\ UNCHANGED <<cls, params, param_names, validation, raw, record, op, x, y, i,
                   sampled, expected, trace, calls>>

\* noise = torch.exp(params['noise_sd']) ** 2, the key missing
NoiseKeyError ==
    /\ pc = "after_forward"
    /\ cls \in NoisyClasses
    /\ ~HasKey(sampled, "noise_sd")
    /\ Leave(Raised("KeyError", "noise_sd"), NoneT)
    /\ UNCHANGED <<cls, params, param_names, validation, raw, record, op, x, y, i,
                   sampled, expected, trace, fwdLog, calls>>

\* the distribution of the site 'likelihood'
LikelihoodDist ==
    IF cls \in NoisyClasses THEN NoisyLikelihood(expected, sampled)
    ELSE NormalLikelihood(expected)

\* return pyro.sample('likelihood', ...)
LikelihoodSite ==
    /\ pc = "after_forward"
    /\ cls \in NoisyClasses => HasKey(sampled, "noise_sd")
    /\ LET d == LikelihoodDist
       IN  IF validation /\ ~ValidArgs(d)
           THEN /\ Leave(Raised("ValueError", "likelihood"), NoneT)
                /\ UNCHANGED trace
           ELSE \E v \in SampleVals :
                  LET site == PyroSample(cond, "likelihood", d, Draw(d, v))
                  IN  /\ trace' = Append(trace, site)
                      /\ Leave(Returned, site.value)
    /\ UNCHANGED <<cls, params, param_names, validation, raw, record, op, x, y, i,
                   sampled, expected, fwdLog, calls>>

\* forward(x, params) called directly, under no handler
CallForward(p) ==
    /\ pc = "idle"
    /\ calls < MaxCalls
    /\ calls' = calls + 1
    /\ op' = "forward"
    /\ x' = raw
    /\ y' = NoneT
    /\ i' = 1
    /\ sampled' = << >>
    /\ expected' = NoneT
    /\ trace' = << >>
    /\ fwdLog' = <<[at |-> 0, x |-> raw, params |-> p]>>
    /\ \E v \in ForwardVals :
         Leave(ForwardOutcome(cls, p),
               IF ForwardOutcome(cls, p) = Returned THEN ForwardValue(raw, v)
               ELSE NoneT)
    /\ UNCHANGED <<cls, params, param_names, validation, raw, record>>

\* convert_holopy(data) called on the raw measurement
CallConvertHolopy ==
    /\ pc = "idle"
    /\ calls < MaxCalls
    /\ cls = "HolopyAlphaModel"
    /\ calls' = calls + 1
    /\ op' = "convert_holopy"
    /\ record' = ConvertHolopy(raw)
    /\ x' = NoneT
    /\ y' = NoneT
    /\ i' = 1
    /\ sampled' = << >>
    /\ expected' = NoneT
    /\ trace' = << >>
    /\ fwdLog' = << >>
    /\ Leave(Returned, NoneT)
    /\ UNCHANGED <<cls, params, param_names, validation, raw>>

Next ==
    \/ \E entry \in {"__call__", "model"} : \E data \in DataRecords :
         Call(entry, data)
    \/ CallLikelihood
    \/ \E p \in DirectParams : CallForward(p)
    \/ CallConvertHolopy
    \/ LikelihoodBase
    \/ SampleParam
    \/ RejectParam
    \/ ForwardReturns
    \/ ForwardRaises
    \/ NoiseKeyError
    \/ LikelihoodSite

Spec == Init /\ [][Next]_vars

-----------------------------------------------------------------------------
(* Properties *)

\* the last invocation has ended
Ended == pc = "idle" /\ outcome # NoOutcome

\* the invocation came through __call__ / model
Invoked == op \in {"__call__", "model"}

\* the invocation runs likelihood
RunsLikelihood == op \in {"__call__", "model", "likelihood"}

Last(seq) == seq[Len(seq)]

ParamSites == SubSeq(trace, 1, IF Len(trace) < Len(params) THEN Len(trace) ELSE Len(params))

\* C1 as stated: whenever a model invoked as a callable on {x, y} returns,
\* the site 'likelihood' holds data['y'] as an observed value, the
\* invocation returns it, and every parameter site is a fresh draw.
C1_AsStated ==
    (Ended /\ Invoked /\ outcome = Returned) =>
        /\ Last(trace).name = "likelihood"
        /\ Last(trace).is_observed
        /\ Last(trace).value = y
        /\ result = y
        /\ \A j \in 1..Len(params) : ~trace[j].is_observed

\* C1 amended: whenever a model invoked as a callable on {x, y} returns,
\* the site 'likelihood' holds data['y'] as an observed value, the
\* invocation returns it, and every parameter site whose name is not
\* 'likelihood' is a fresh draw; a parameter named 'likelihood' is fixed
\* to data['y'] as well.
C1_Conditioned ==
    (Ended /\ Invoked /\ outcome = Returned) =>
        /\ Len(trace) = Len(params) + 1
        /\ Last(trace).name = "likelihood"
        /\ Last(trace).is_observed
        /\ Last(trace).value = y
        /\ result = y
        /\ \A j \in 1..Len(params) :
             /\ trace[j].is_observed <=> trace[j].name = "likelihood"
             /\ trace[j].is_observed => trace[j].value = y

C1_Witness ==
    /\ Ended /\ Invoked /\ outcome = Returned
    /\ Len(params) >= 2
    /\ \A j \in 1..Len(params) : ~trace[j].is_observed
    /\ result = y

\* C2: likelihood or forward on a class that does not override it, and a
\* BaseModel, NormalModel or NoisyNormalModel invoked as a callable, always
\* end in NotImplementedError and never return.
C2_NotImplemented ==
    (/\ Ended
     /\ \/ op = "forward" /\ cls \notin ForwardClasses
        \/ op = "likelihood" /\ cls = "BaseModel"
        \/ Invoked /\ cls \in {"BaseModel", "NormalModel", "NoisyNormalModel"})
    => outcome = Raised("NotImplementedError", "")

\* C3: in NormalModel.likelihood the sites of the prior entries come first,
\* one per entry in the spec's order, each named by its key with the
\* entry's Normal(loc, scale); forward is called at most once, after all of
\* them, with the dict of their values; a call that returns has then
\* sampled exactly one more site, 'likelihood', from
\* Normal(expected, 0.1 squared), and returns its value.
C3_NormalSequence ==
    (cls \in NormalClasses /\ RunsLikelihood) =>
        /\ Len(trace) <= Len(params) + 1
        /\ \A j \in 1..Len(ParamSites) :
             /\ trace[j].name = params[j].k
             /\ trace[j].loc = Scalar(params[j].v[1])
             /\ trace[j].scale = Scalar(params[j].v[2])
        /\ Len(fwdLog) <= 1
        /\ fwdLog # << >> =>
             /\ fwdLog[1].at = Len(params)
             /\ Len(trace) >= Len(params)
             /\ fwdLog[1].x = x
             /\ Keys(fwdLog[1].params) = Keys(params)
             /\ \A j \in 1..Len(params) : fwdLog[1].params[j].v = trace[j].value
        /\ Len(trace) = Len(params) + 1 => pc = "idle" /\ outcome = Returned
        /\ (Ended /\ outcome = Returned) =>
             /\ Len(fwdLog) = 1
             /\ Len(trace) = Len(params) + 1
             /\ Last(trace).name = "likelihood"
             /\ Last(trace).loc = expected
             /\ Last(trace).scale = Scalar(10)
             /\ result = Last(trace).value

C3_Witness ==
    /\ cls \in NormalClasses /\ op = "likelihood"
    /\ Ended /\ outcome = Returned
    /\ Len(params) >= 2
    /\ ~Last(trace).is_observed

\* l is the natural logarithm of m, to the precision of the arithmetic
IsLn(l, m) == Exp(l) <= m /\ m < Exp(l + 1)

\* C4: in NoisyNormalModel.likelihood the sites of the prior entries come
\* one per entry in the spec's order, each named by its key; the site
\* 'noise_sd' has Normal(ln(loc), ln(scale)) and every other site the
\* entry's Normal(loc, scale); what is stored in params under each key, and
\* passed to forward, is the site's own value (for 'noise_sd' the
\* log-domain sample, not its exponential).
C4_NoisyPriors ==
    (cls \in NoisyClasses /\ RunsLikelihood) =>
        /\ Len(sampled) = Len(ParamSites)
        /\ \A j \in 1..Len(ParamSites) :
             /\ trace[j].name = params[j].k
             /\ sampled[j].k = params[j].k
             /\ sampled[j].v = trace[j].value
             /\ trace[j].loc.shape = << >> /\ trace[j].scale.shape = << >>
             /\ IF params[j].k = "noise_sd"
                THEN /\ IsLn(trace[j].loc.vals[1], params[j].v[1])
                     /\ IsLn(trace[j].scale.vals[1], params[j].v[2])
                ELSE /\ trace[j].loc.vals = <<params[j].v[1]>>
                     /\ trace[j].scale.vals = <<params[j].v[2]>>
        /\ fwdLog # << >> =>
             /\ Len(ParamSites) = Len(params)
             /\ fwdLog[1].at = Len(params)
             /\ fwdLog[1].params = sampled

C4_Witness ==
    /\ cls \in NoisyClasses /\ RunsLikelihood
    /\ fwdLog # << >>
    /\ Len(params) >= 2
    /\ HasKey(params, "noise_sd")
    /\ ~HasKey(params, "likelihood")

\* the value recorded at the site of the given name
SiteValue(name) == trace[CHOOSE j \in 1..Len(trace) : trace[j].name = name].value

\* C5: a call of NoisyNormalModel.likelihood that returns has sampled the
\* site 'likelihood' last, from Normal(expected, noise) with expected the
\* value forward returned and noise = exp(s) squared, s being the value
\* recorded at the site 'noise_sd' and handed to forward; it returns that
\* site's value.
C5_NoisyLikelihood ==
    (cls \in NoisyClasses /\ RunsLikelihood /\ Ended /\ outcome = Returned) =>
        /\ Len(fwdLog) = 1
        /\ Len(trace) = Len(params) + 1
        /\ Last(trace).name = "likelihood"
        /\ Last(trace).loc = expected
        /\ expected.shape = Squeeze(x.shape)
        /\ HasKey(params, "noise_sd")
        /\ LET s == SiteValue("noise_sd")
           IN  /\ Get(fwdLog[1].params, "noise_sd") = s
               /\ Last(trace).scale.shape = s.shape
               /\ \A j \in 1..Len(s.vals) :
                    Last(trace).scale.vals[j] = (Exp(s.vals[j]) * Exp(s.vals[j])) \div Unit
        /\ result = Last(trace).value

C5_Witness ==
    /\ cls \in NoisyClasses /\ RunsLikelihood /\ Ended /\ outcome = Returned
    /\ ~Last(trace).is_observed
    /\ SiteValue("noise_sd") = Scalar(500)

\* C6 as stated: convert_holopy of a measurement of shape (H, W) returns
\* as 'y' a 1-D tensor of length H*W holding the measurement's values and
\* as 'x' the measurement itself.
C6_AsStated ==
    record # NoRecord =>
        /\ record.y.shape = <<raw.shape[1] * raw.shape[2]>>
        /\ record.y.vals = raw.vals
        /\ record.x = raw

\* C6 amended: convert_holopy of a measurement of shape (H, W) returns as
\* 'y' a tensor holding the measurement's H*W values in order, with the
\* dimensions of size 1 dropped: shape (H, W) when H > 1 and W > 1, 1-D of
\* length H*W when exactly one of H, W is 1, 0-D when both are; and as 'x'
\* the measurement itself.
C6_Squeezed ==
    record # NoRecord =>
        LET H == raw.shape[1]
            W == raw.shape[2]
        IN  /\ record.y.vals = raw.vals
            /\ Len(record.y.vals) = H * W
            /\ H > 1 /\ W > 1 => record.y.shape = <<H, W>>
            /\ (H = 1) # (W = 1) => record.y.shape = <<H * W>>
            /\ H = 1 /\ W = 1 => record.y.shape = << >>
            /\ record.x = raw

C6_Witness ==
    /\ record # NoRecord
    /\ op = "convert_holopy" /\ Ended
    /\ raw.shape = <<2, 2>>

\* C7: a HolopyAlphaModel with the end-to-end prior spec, invoked on
\* convert_holopy of a 10x10 measurement of ones, ends without error, every
\* distribution it built having valid arguments, and returns a tensor of
\* length 100.
C7_EndToEnd ==
    (/\ cls = "HolopyAlphaModel" /\ params = EndToEndSpec
     /\ raw = Ones10x10 /\ record = ConvertHolopy(raw)
     /\ Invoked /\ x = record.x /\ y = record.y
     /\ Ended)
    => /\ outcome = Returned
       /\ \A j \in 1..Len(trace) : AllPositive(trace[j].scale)
       /\ result.shape = <<100>>

\* C8: no step changes the model's params or param_names, param_names is
\* the list of the keys of params, and an invocation starts with no
\* sampled parameter and no sample site of an earlier one.
C8_Frame ==
    [][/\ params' = params
       /\ param_names' = param_names
       /\ param_names' = Keys(params')
       /\ calls' # calls => sampled' = << >> /\ trace' = << >> /\ expected' = NoneT]_vars

C8_Witness ==
    /\ calls = 2
    /\ Ended
    /\ RunsLikelihood
    /\ Len(trace) >= 2

\* C9: with every prior scale > 0 and the 'noise_sd' loc > 0, every Normal
\* NoisyNormalModel.likelihood builds has a strictly positive scale: none
\* is rejected and every recorded site has one.
C9_PositiveScales ==
    (cls \in NoisyClasses /\ RunsLikelihood) =>
        /\ \A j \in 1..Len(trace) : AllPositive(trace[j].scale)
        /\ outcome.exc # "ValueError"

NoNoise == cls \in NoisyClasses /\ RunsLikelihood /\ ~HasKey(params, "noise_sd")

\* C10 as stated: NoisyNormalModel.likelihood on a prior spec without
\* 'noise_sd' samples every declared parameter, calls forward once and ends
\* in the missing-key error for 'noise_sd', never reaching the site
\* 'likelihood'.
C10_AsStated ==
    (NoNoise /\ Ended) =>
        /\ outcome = Raised("KeyError", "noise_sd")
        /\ Len(trace) = Len(params)
        /\ Len(fwdLog) = 1

\* C10 amended: NoisyNormalModel.likelihood on a prior spec without
\* 'noise_sd' never returns and never samples a site after those of the
\* declared parameters; it samples each of them from Normal(loc, scale),
\* calls forward once, and ends in the missing-key error for 'noise_sd' if
\* forward returns, and in forward's own error otherwise
\* (NotImplementedError where forward is not overridden, the missing-key
\* error for the first of x, y, z, n, r, alpha that
\* HolopyAlphaModel.forward does not find).
C10_MissingNoise ==
    /\ NoNoise => Len(trace) <= Len(params)
    /\ (NoNoise /\ Ended) =>
        /\ Len(trace) = Len(params)
        /\ \A j \in 1..Len(params) :
             /\ trace[j].name = params[j].k
             /\ trace[j].loc = Scalar(params[j].v[1])
             /\ trace[j].scale = Scalar(params[j].v[2])
        /\ Len(fwdLog) = 1
        /\ outcome.kind = "raise"
        /\ IF cls = "NoisyNormalModel"
           THEN outcome = Raised("NotImplementedError", "")
           ELSE IF cls = "HolopyAlphaModel"
                   /\ \E j \in 1..Len(ForwardKeys) : ~HasKey(params, ForwardKeys[j])
           THEN /\ outcome.exc = "KeyError"
                /\ ~HasKey(params, outcome.key)
                /\ \E j \in 1..Len(ForwardKeys) :
                     /\ ForwardKeys[j] = outcome.key
                     /\ \A m \in 1..(j - 1) : HasKey(params, ForwardKeys[m])
           ELSE outcome = Raised("KeyError", "noise_sd")
    /\ (cls \in NoisyClasses /\ RunsLikelihood /\ Ended /\ outcome = Returned)
         => HasKey(params, "noise_sd")

C10_Witness ==
    /\ NoNoise /\ Ended
    /\ outcome = Raised("KeyError", "noise_sd")
    /\ Len(trace) >= 2

====
